---- MODULE Spec2Model ----
\* Model of consumers/project_consumer_valjohnson.py: a consumer that tails
\* data/buzz_live.json, counts messages per author and (is meant to) redraw a
\* live chart of each author's share after every accepted message.
\*
\* Text is modelled as a sequence of characters over a small alphabet.  Each
\* character stands for a piece of text the JSON decoder treats atomically:
\*   "E"  {"author": "Eve"}          "B"  {"author": "Bob"}
\*   "H"  {"author": ["Eve"]}        "L"  [1, 2, 3]
\*   "x"  not valid json             "{" and "}"  themselves ("{}" is an
\*   "\n" the line terminator             object without an author field)
EXTENDS Integers, Sequences, FiniteSets, TLC

\* ------------------------------------------------------------------ bounds
MaxAppends == 3

\* The same bound for the specification with fairness, whose liveness check
\* is costlier.
MaxLiveAppends == 2

\* ------------------------------------------------------------- text model
Newline == "\n"

Whitespace == {Newline}

\* What the producer can write in one append: whole lines, a blank line, and
\* pieces of a line written without (or separately from) its terminator.
Chunks ==
    { <<"E", Newline>>, <<"B", Newline>>, <<"{", "}", Newline>>,
      <<"H", Newline>>, <<"L", Newline>>, <<"x", Newline>>,
      <<Newline>>, <<"{">>, <<"}", Newline>>, <<"E">> }

\* str.strip(): drop leading and trailing whitespace.
RECURSIVE lstrip(_)
lstrip(s) ==
    IF s # <<>> /\ Head(s) \in Whitespace THEN lstrip(Tail(s)) ELSE s

RECURSIVE rstrip(_)
rstrip(s) ==
    IF s # <<>> /\ s[Len(s)] \in Whitespace
    THEN rstrip(SubSeq(s, 1, Len(s) - 1))
    ELSE s

strip(s) == rstrip(lstrip(s))

\* Variant: everything after the cursor is returned at once, as file.read()
\* does.
readline_all(content, p) == SubSeq(content, p + 1, Len(content))

\* file.readline(): the characters after the cursor up to and including the
\* first newline, or up to end of file when no newline has been written yet.
\* At end of file it returns the empty string.
readline(content, p) ==
    LET ends == { i \in (p + 1)..Len(content) : content[i] = Newline }
        stop == IF ends = {} THEN Len(content)
                ELSE CHOOSE i \in ends : \A j \in ends : i <= j
    IN  SubSeq(content, p + 1, stop)

\* --------------------------------------------------------- JSON decoding
StrVal(s) == [t |-> "str", v |-> s]
ListVal == [t |-> "list", v |-> ""]

\* json.loads(): surrounding whitespace is ignored; the text must be exactly
\* one JSON value, otherwise JSONDecodeError is raised.
json_loads(message) ==
    LET w == strip(message)
    IN  CASE w = <<"E">> -> [raised |-> "none", type |-> "dict",
                             fields |-> [f \in {"author"} |-> StrVal("Eve")]]
          [] w = <<"B">> -> [raised |-> "none", type |-> "dict",
                             fields |-> [f \in {"author"} |-> StrVal("Bob")]]
          [] w = <<"K">> -> [raised |-> "none", type |-> "dict",
                             fields |-> [f \in {"author"} |-> StrVal("unknown")]]
          [] w = <<"H">> -> [raised |-> "none", type |-> "dict",
                             fields |-> [f \in {"author"} |-> ListVal]]
          [] w = <<"{", "}">> -> [raised |-> "none", type |-> "dict",
                                  fields |-> [f \in {} |-> ListVal]]
          [] w = <<"L">> -> [raised |-> "none", type |-> "list",
                             fields |-> [f \in {} |-> ListVal]]
          [] OTHER -> [raised |-> "JSONDecodeError", type |-> "none",
                       fields |-> [f \in {} |-> ListVal]]

\* dict.get(key, default)
DictGet(d, key, default) == IF key \in DOMAIN d THEN d[key] ELSE default

\* Lists and dicts are unhashable and cannot be used as a dict key.
Hashable(val) == val.t = "str"

\* --------------------------------------------------------------- numbers
RECURSIVE GCD(_, _)
GCD(a, b) == IF b = 0 THEN a ELSE GCD(b, a % b)

\* (count / total_messages) * 100, kept exact as a reduced fraction <<n, d>>.
Percentage(count, total) ==
    IF total > 0
    THEN LET g == GCD(100 * count, total)
         IN  <<(100 * count) \div g, total \div g>>
    ELSE <<0, 1>>

\* ----------------------------------------------------------------- state
VARIABLES
    data_file_exists,   \* DATA_FILE.exists()
    file_content,       \* the characters of data/buzz_live.json
    appends,            \* number of producer appends so far
    pc,                 \* position of main()
    pos,                \* cursor of the open file object
    size_at_open,       \* size of the file when main() opened it
    line,               \* main()'s local `line`
    author_counts,      \* defaultdict(int): key -> count
    author_order,       \* insertion order of author_counts' keys
    total_messages,
    percentage_history, \* defaultdict(list): key -> list of percentages
    message_indices,
    plotted,            \* the series currently drawn on the axes
    chart_calls,        \* number of update_chart() calls so far
    logged,             \* log records emitted by the latest step
    handed,             \* messages passed to process_message so far
    exit_code

agg_vars == <<author_counts, author_order, total_messages,
              percentage_history, message_indices, plotted, chart_calls>>

vars == <<data_file_exists, file_content, appends, pc, pos, size_at_open, line,
          author_counts, author_order, total_messages, percentage_history,
          message_indices, plotted, chart_calls, logged, handed, exit_code>>

Log(level, event) == [level |-> level, event |-> event]

\* The module-level data structures as one value.
Agg ==
    [author_counts |-> author_counts, author_order |-> author_order,
     total_messages |-> total_messages,
     percentage_history |-> percentage_history,
     message_indices |-> message_indices,
     plotted |-> plotted, chart_calls |-> chart_calls]

EmptyDict == [k \in {} |-> 0]

NoPlot == [x |-> <<>>, y |-> <<>>, label |-> "", drawn |-> FALSE]

\* defaultdict.__getitem__ without the insertion side effect.
CountOf(counts, k) == IF k \in DOMAIN counts THEN counts[k] ELSE 0
HistoryOf(history, k) == IF k \in DOMAIN history THEN history[k] ELSE <<>>

\* ----------------------------------------------------------- update_chart
\* The calls into the display at which it can fail: ax.clear() (line 68),
\* ax.plot() (line 80), plt.draw() and what follows it (lines 93-96).
SinkFailures == {"never", "clear", "plot", "draw"}

\* Variant: only the history of the key seen last is extended.
ExtendHistories_lastonly(a) ==
    LET author == a.author_order[Len(a.author_order)]
    IN  [k \in (DOMAIN a.percentage_history) \cup {author} |->
           IF k = author
           THEN Append(HistoryOf(a.percentage_history, k),
                       Percentage(a.author_counts[k], a.total_messages))
           ELSE a.percentage_history[k]]

\* Variant: the history of a key seen for the first time is filled up with
\* zeros for the cycles before it.
ExtendHistories_backfill(a) ==
    [k \in (DOMAIN a.percentage_history) \cup (DOMAIN a.author_counts) |->
       IF k \in DOMAIN a.author_counts
       THEN Append(IF k \in DOMAIN a.percentage_history
                   THEN a.percentage_history[k]
                   ELSE [i \in 1..Len(a.message_indices) |-> <<0, 1>>],
                   Percentage(a.author_counts[k], a.total_messages))
       ELSE a.percentage_history[k]]

\* Lines 73-76: one percentage is appended to the history of every key of
\* author_counts; percentage_history[author] creates an empty list for a key
\* it does not hold yet.
ExtendHistories(a) ==
    [k \in (DOMAIN a.percentage_history) \cup (DOMAIN a.author_counts) |->
       IF k \in DOMAIN a.author_counts
       THEN Append(HistoryOf(a.percentage_history, k),
                   Percentage(a.author_counts[k], a.total_messages))
       ELSE a.percentage_history[k]]

\* update_chart() with the display failing at the given call, or never.
\* It clears the axes, appends the current total to message_indices and one
\* percentage to the history of every key of author_counts, then plots the
\* history of the key the loop variable `author` was left on (the last key
\* in insertion order) against message_indices.  Plotting raises ValueError
\* when the two sequences differ in length; the appends have happened by
\* then.
update_chart_sink(a, fails_at) ==
    LET indices == Append(a.message_indices, a.total_messages)
        history == ExtendHistories(a)
        cleared == [a EXCEPT !.plotted = NoPlot,
                             !.chart_calls = a.chart_calls + 1,
                             !.message_indices = indices,
                             !.percentage_history = history]
    IN  IF fails_at = "clear"
        THEN [agg |-> [a EXCEPT !.chart_calls = a.chart_calls + 1],
              raised |-> "SinkError"]
        ELSE IF a.author_order = <<>>
        THEN [agg |-> cleared, raised |-> "UnboundLocalError"]
        ELSE LET author == a.author_order[Len(a.author_order)]
             IN  IF Len(indices) # Len(history[author])
                 THEN [agg |-> cleared, raised |-> "ValueError"]
                 ELSE IF fails_at = "plot"
                 THEN [agg |-> cleared, raised |-> "SinkError"]
                 ELSE [agg |-> [cleared EXCEPT !.plotted =
                                  [x |-> indices, y |-> history[author],
                                   label |-> author, drawn |-> TRUE]],
                       raised |-> IF fails_at = "draw" THEN "SinkError"
                                  ELSE "none"]

\* update_chart() with a display that works.
update_chart(a) == update_chart_sink(a, "never")

\* -------------------------------------------------------- process_message
\* Names bound in the module's global namespace when process_message runs.
ModuleGlobals ==
    {"json", "os", "sys", "time", "pathlib", "defaultdict", "plt", "logger",
     "PROJECT_ROOT", "DATA_FOLDER", "DATA_FILE", "author_counts",
     "total_messages", "percentage_history", "message_indices", "fig", "ax",
     "update_chart", "process_message", "main"}

\* Names bound as locals of process_message.
ProcessMessageLocals == {"message", "message_dict", "author", "e"}

\* Variant: every name the function reads is bound.
NameDefined_bound(n) == TRUE

\* Evaluating a name that is bound nowhere raises NameError.
NameDefined(n) == n \in ModuleGlobals \cup ProcessMessageLocals

\* Variant: a different default key.
DefaultAuthor_other == StrVal("anonymous")

\* The key used when the object has no author field.
DefaultAuthor == StrVal("unknown")

\* Variant: the count is assigned 1 instead of being incremented.
IncrementAuthor_assign(a, key) ==
    [a EXCEPT !.author_counts =
                 [k \in (DOMAIN a.author_counts) \cup {key} |->
                    IF k = key THEN 1 ELSE a.author_counts[k]],
              !.author_order =
                 IF key \in DOMAIN a.author_counts THEN a.author_order
                 ELSE Append(a.author_order, key)]

\* author_counts[author] += 1
IncrementAuthor(a, key) ==
    [a EXCEPT !.author_counts =
                 [k \in (DOMAIN a.author_counts) \cup {key} |->
                    IF k = key THEN CountOf(a.author_counts, k) + 1
                    ELSE a.author_counts[k]],
              !.author_order =
                 IF key \in DOMAIN a.author_counts THEN a.author_order
                 ELSE Append(a.author_order, key)]

\* Variant: the total is not incremented.
IncrementTotal_skip(a) == a

\* total_messages += 1
IncrementTotal(a) == [a EXCEPT !.total_messages = a.total_messages + 1]

\* Lines 136-148: redraw the chart; an exception raised by update_chart is
\* caught by the handler of process_message and logged.
ChartAndLog(counted, fails_at) ==
    LET chart == update_chart_sink(counted, fails_at)
    IN  IF chart.raised # "none"
        THEN [agg |-> chart.agg,
              log |-> <<Log("info", "Total messages"),
                        Log("error", "Error processing message")>>]
        ELSE [agg |-> chart.agg,
              log |-> <<Log("info", "Total messages"),
                        Log("info", "Chart updated successfully")>>]

\* Lines 129-140: count the message, log the counts, redraw the chart.  The
\* counts log line reads the name tracked_author; when that raises, the
\* handler of process_message logs the error and update_chart is not called.
AcceptRecord(a, author) ==
    IF ~Hashable(author)
    THEN [agg |-> a,
          log |-> <<Log("error", "Error processing message")>>]
    ELSE LET counted == IncrementTotal(IncrementAuthor(a, author.v))
         IN  IF ~NameDefined("tracked_author")
             THEN [agg |-> counted,
                   log |-> <<Log("error", "Error processing message")>>]
             ELSE ChartAndLog(counted, "never")

\* Variant: every message that parses is counted in the total, whatever its
\* top-level shape.
process_message_countall(a, message) ==
    LET message_dict == json_loads(message)
    IN  IF message_dict.raised # "none"
        THEN [agg |-> a,
              log |-> <<Log("debug", "Raw message"),
                        Log("error", "Invalid JSON message")>>]
        ELSE IF message_dict.type # "dict"
        THEN [agg |-> [a EXCEPT !.total_messages = a.total_messages + 1],
              log |-> <<Log("debug", "Raw message"),
                        Log("info", "Processed JSON message"),
                        Log("error", "Expected a dictionary")>>]
        ELSE LET author == DictGet(message_dict.fields, "author",
                                   DefaultAuthor)
                 r == AcceptRecord(a, author)
             IN  [agg |-> r.agg,
                  log |-> <<Log("debug", "Raw message"),
                            Log("info", "Processed JSON message"),
                            Log("info", "Message received from author")>>
                          \o r.log]

\* process_message(message): the new data structures and the log records.
process_message(a, message) ==
    LET message_dict == json_loads(message)
    IN  IF message_dict.raised # "none"
        THEN [agg |-> a,
              log |-> <<Log("debug", "Raw message"),
                        Log("error", "Invalid JSON message")>>]
        ELSE IF message_dict.type # "dict"
        THEN [agg |-> a,
              log |-> <<Log("debug", "Raw message"),
                        Log("info", "Processed JSON message"),
                        Log("error", "Expected a dictionary")>>]
        ELSE LET author == DictGet(message_dict.fields, "author",
                                   DefaultAuthor)
                 r == AcceptRecord(a, author)
             IN  [agg |-> r.agg,
                  log |-> <<Log("debug", "Raw message"),
                            Log("info", "Processed JSON message"),
                            Log("info", "Message received from author")>>
                          \o r.log]

\* ------------------------------------------------------------------ main
Init ==
    /\ data_file_exists \in BOOLEAN
    /\ file_content = <<>>
    /\ appends = 0
    /\ pc = "start"
    /\ pos = 0
    /\ size_at_open = 0
    /\ line = <<>>
    /\ author_counts = EmptyDict
    /\ author_order = <<>>
    /\ total_messages = 0
    /\ percentage_history = [k \in {} |-> <<>>]
    /\ message_indices = <<>>
    /\ plotted = NoPlot
    /\ chart_calls = 0
    /\ logged = <<>>
    /\ handed = <<>>
    /\ exit_code = -1

\* The producer appends to the data file (at any time, also before the
\* consumer has opened it).
AppendUpTo(limit) ==
    /\ data_file_exists
    /\ appends < limit
    /\ \E chunk \in Chunks : file_content' = file_content \o chunk
    /\ appends' = appends + 1
    /\ UNCHANGED <<data_file_exists, pc, pos, size_at_open, line, agg_vars,
                   logged, handed, exit_code>>

ProducerAppend == AppendUpTo(MaxAppends)

ProducerAppendLive == AppendUpTo(MaxLiveAppends)

\* Variant: the missing file is logged but main() carries on into the try
\* block, where open() fails and the handlers end the process normally.
ExitMissingFile_continue ==
    /\ pc = "start"
    /\ ~data_file_exists
    /\ logged' = <<Log("error", "Data file does not exist. Exiting.")>>
    /\ pc' = "finally"
    /\ UNCHANGED <<data_file_exists, file_content, appends, pos,
                   size_at_open, line, agg_vars, handed, exit_code>>

\* Lines 165-167: exit with status 1 when the data file does not exist.
ExitMissingFile ==
    /\ pc = "start"
    /\ ~data_file_exists
    /\ logged' = <<Log("error", "Data file does not exist. Exiting.")>>
    /\ exit_code' = 1
    /\ pc' = "exited"
    /\ UNCHANGED <<data_file_exists, file_content, appends, pos,
                   size_at_open, line, agg_vars, handed>>

\* Variant: the file is opened but the cursor is left at its start.
OpenAndSeek_noseek ==
    /\ pc = "start"
    /\ data_file_exists
    /\ pos' = 0
    /\ size_at_open' = Len(file_content)
    /\ logged' = <<>>
    /\ pc' = "readline"
    /\ UNCHANGED <<data_file_exists, file_content, appends, line, agg_vars,
                   handed, exit_code>>

\* Lines 171-175: open the file and move the cursor to its end.
OpenAndSeek ==
    /\ pc = "start"
    /\ data_file_exists
    /\ pos' = Len(file_content)
    /\ size_at_open' = Len(file_content)
    /\ logged' = <<>>
    /\ pc' = "readline"
    /\ UNCHANGED <<data_file_exists, file_content, appends, line, agg_vars,
                   handed, exit_code>>

\* Line 179: line = file.readline()
ReadLine ==
    /\ pc = "readline"
    /\ line' = readline(file_content, pos)
    /\ pos' = pos + Len(line')
    /\ logged' = <<>>
    /\ pc' = "dispatch"
    /\ UNCHANGED <<data_file_exists, file_content, appends, size_at_open,
                   agg_vars, handed, exit_code>>

\* Variant: an error inside process_message is not handled there and ends
\* the loop of main().
ProcessLine_propagate ==
    /\ pc = "dispatch"
    /\ strip(line) # <<>>
    /\ LET r == process_message(Agg, line)
       IN  /\ author_counts' = r.agg.author_counts
           /\ author_order' = r.agg.author_order
           /\ total_messages' = r.agg.total_messages
           /\ percentage_history' = r.agg.percentage_history
           /\ message_indices' = r.agg.message_indices
           /\ plotted' = r.agg.plotted
           /\ chart_calls' = r.agg.chart_calls
           /\ logged' = r.log
           /\ pc' = IF \E i \in DOMAIN r.log : r.log[i].level = "error"
                    THEN "finally" ELSE "readline"
    /\ handed' = Append(handed, line)
    /\ UNCHANGED <<data_file_exists, file_content, appends, pos,
                   size_at_open, line, exit_code>>

\* Lines 182-184: a line with non-whitespace content is processed.
ProcessLine ==
    /\ pc = "dispatch"
    /\ strip(line) # <<>>
    /\ LET r == process_message(Agg, line)
       IN  /\ author_counts' = r.agg.author_counts
           /\ author_order' = r.agg.author_order
           /\ total_messages' = r.agg.total_messages
           /\ percentage_history' = r.agg.percentage_history
           /\ message_indices' = r.agg.message_indices
           /\ plotted' = r.agg.plotted
           /\ chart_calls' = r.agg.chart_calls
           /\ logged' = r.log
    /\ handed' = Append(handed, line)
    /\ pc' = "readline"
    /\ UNCHANGED <<data_file_exists, file_content, appends, pos,
                   size_at_open, line, exit_code>>

\* Variant: the loop is left when there is nothing to process.
Sleep_break ==
    /\ pc = "dispatch"
    /\ strip(line) = <<>>
    /\ logged' = <<Log("debug", "No new messages. Waiting...")>>
    /\ pc' = "finally"
    /\ UNCHANGED <<data_file_exists, file_content, appends, pos,
                   size_at_open, line, agg_vars, handed, exit_code>>

\* Lines 185-190: nothing to process; sleep half a second and poll again.
Sleep ==
    /\ pc = "dispatch"
    /\ strip(line) = <<>>
    /\ logged' = <<Log("debug", "No new messages. Waiting...")>>
    /\ pc' = "readline"
    /\ UNCHANGED <<data_file_exists, file_content, appends, pos,
                   size_at_open, line, agg_vars, handed, exit_code>>

\* Lines 192-193: the operator interrupts the loop between two cycles
\* (while it polls or sleeps).
KeyboardInterrupt ==
    /\ pc = "readline"
    /\ logged' = <<Log("info", "Consumer interrupted by user.")>>
    /\ pc' = "finally"
    /\ UNCHANGED <<data_file_exists, file_content, appends, pos,
                   size_at_open, line, agg_vars, handed, exit_code>>

\* Lines 196-199: plt.ioff(); plt.show(); the process ends normally.
Finally ==
    /\ pc = "finally"
    /\ logged' = <<Log("info", "Consumer closed.")>>
    /\ exit_code' = 0
    /\ pc' = "closed"
    /\ UNCHANGED <<data_file_exists, file_content, appends, pos,
                   size_at_open, line, agg_vars, handed>>

Next ==
    \/ ProducerAppend
    \/ ExitMissingFile
    \/ OpenAndSeek
    \/ ReadLine
    \/ ProcessLine
    \/ Sleep
    \/ KeyboardInterrupt
    \/ Finally

Spec == Init /\ [][Next]_vars

\* main() without an operator interrupt.
NextRunning ==
    \/ ProducerAppendLive
    \/ ExitMissingFile
    \/ OpenAndSeek
    \/ ReadLine
    \/ ProcessLine
    \/ Sleep

\* The statements of main() are executed one after the other: a process that
\* is not interrupted always takes its next step.  Nothing is assumed about
\* the producer.
MainStep == ExitMissingFile \/ OpenAndSeek \/ ReadLine \/ ProcessLine \/ Sleep

SpecRunning == Init /\ [][NextRunning]_vars /\ WF_vars(MainStep)

\* ------------------------------------------------- interrupts and errors
\* The points of process_message at which a KeyboardInterrupt can be raised
\* while a message is being counted: before line 130 has touched the dict,
\* inside line 130 after the defaultdict has inserted the key with 0 and
\* before the incremented value is stored, between lines 130 and 131, and
\* after line 131.
InterruptPoints ==
    {"before_count", "key_inserted", "author_counted", "both_counted"}

\* The data structures left behind when process_message(message) is cut off
\* at the given point.  KeyboardInterrupt is not an Exception, so the
\* handlers of process_message do not catch it.
InterruptedAt(a, message, point) ==
    LET message_dict == json_loads(message)
    IN  IF message_dict.raised # "none" \/ message_dict.type # "dict"
        THEN a
        ELSE LET author == DictGet(message_dict.fields, "author",
                                   DefaultAuthor)
             IN  IF ~Hashable(author) \/ point = "before_count"
                 THEN a
                 ELSE IF point = "key_inserted"
                 THEN [a EXCEPT
                         !.author_counts =
                            [k \in (DOMAIN a.author_counts) \cup {author.v}
                               |-> CountOf(a.author_counts, k)],
                         !.author_order =
                            IF author.v \in DOMAIN a.author_counts
                            THEN a.author_order
                            ELSE Append(a.author_order, author.v)]
                 ELSE IF point = "author_counted"
                 THEN IncrementAuthor(a, author.v)
                 ELSE IncrementTotal(IncrementAuthor(a, author.v))

\* Lines 184 and 192-193: the operator interrupts main() while it is inside
\* process_message(line); the interrupt propagates to main()'s handler.
InterruptDuringProcess ==
    /\ pc = "dispatch"
    /\ strip(line) # <<>>
    /\ \E point \in InterruptPoints :
          LET a == InterruptedAt(Agg, line, point)
          IN  /\ author_counts' = a.author_counts
              /\ author_order' = a.author_order
              /\ total_messages' = a.total_messages
              /\ percentage_history' = a.percentage_history
              /\ message_indices' = a.message_indices
              /\ plotted' = a.plotted
              /\ chart_calls' = a.chart_calls
    /\ handed' = Append(handed, line)
    /\ logged' = <<Log("info", "Consumer interrupted by user.")>>
    /\ pc' = "finally"
    /\ UNCHANGED <<data_file_exists, file_content, appends, pos,
                   size_at_open, line, exit_code>>

\* Lines 179 and 194-195: file.readline() raises an I/O error; main()'s
\* handler logs it and the try block is left.
ReadError ==
    /\ pc = "readline"
    /\ logged' = <<Log("error", "Unexpected error")>>
    /\ pc' = "finally"
    /\ UNCHANGED <<data_file_exists, file_content, appends, pos,
                   size_at_open, line, agg_vars, handed, exit_code>>

NextFaults ==
    \/ Next
    \/ InterruptDuringProcess
    \/ ReadError

SpecFaults == Init /\ [][NextFaults]_vars

\* ------------------------------------------- update_chart, cycle by cycle
\* The specifications below follow lines 129-137 for a message that is
\* counted, with the counts log of line 134 not raising: the counts are
\* incremented and update_chart() is called, once per message.
MaxCycles == 4

\* The whole lines that are counted.
ChartMessages == { m \in Chunks : m[Len(m)] = Newline
                                  /\ json_loads(m).type = "dict"
                                  /\ Hashable(DictGet(json_loads(m).fields,
                                                      "author",
                                                      DefaultAuthor)) }

\* Lines 126-137 (without line 134) for message m, the display failing at
\* the given call, or never.
CycleWith(m, fails_at) ==
    /\ Len(handed) < MaxCycles
    /\ LET author  == DictGet(json_loads(m).fields, "author", DefaultAuthor)
           counted == IncrementTotal(IncrementAuthor(Agg, author.v))
           r       == ChartAndLog(counted, fails_at)
       IN  /\ author_counts' = r.agg.author_counts
           /\ author_order' = r.agg.author_order
           /\ total_messages' = r.agg.total_messages
           /\ percentage_history' = r.agg.percentage_history
           /\ message_indices' = r.agg.message_indices
           /\ plotted' = r.agg.plotted
           /\ chart_calls' = r.agg.chart_calls
           /\ logged' = r.log
    /\ handed' = Append(handed, m)
    /\ UNCHANGED <<data_file_exists, file_content, appends, pc, pos,
                   size_at_open, line, exit_code>>

\* One cycle with a display that works.
ChartCycle == \E m \in ChartMessages : CycleWith(m, "never")

\* One cycle with a display that may fail.
SinkCycle == \E m \in ChartMessages : \E f \in SinkFailures : CycleWith(m, f)

SpecChart == Init /\ [][ChartCycle]_vars

SpecSink == Init /\ [][SinkCycle]_vars

TypeOK ==
    /\ pc \in {"start", "exited", "readline", "dispatch", "finally", "closed"}
    /\ pos \in 0..Len(file_content)
    /\ total_messages \in Nat

\* ------------------------------------------------------ auxiliary notions
\* The sum of all values of a dict of counts.
RECURSIVE SumCounts(_)
SumCounts(counts) ==
    IF DOMAIN counts = {} THEN 0
    ELSE LET k == CHOOSE x \in DOMAIN counts : TRUE
         IN  counts[k] +
             SumCounts([j \in (DOMAIN counts) \ {k} |-> counts[j]])

\* The message is a whole line: it ends with the line terminator.
CompleteLine(m) == m # <<>> /\ m[Len(m)] = Newline

\* The message is well-formed JSON whose top level is an object.
WellFormedObject(m) ==
    json_loads(m).raised = "none" /\ json_loads(m).type = "dict"

\* The message is not valid JSON, or valid JSON that is not an object.
RejectedLine(m) == ~WellFormedObject(m)

\* The author of a well-formed object, "unknown" when the field is absent.
AuthorValue(m) == DictGet(json_loads(m).fields, "author", StrVal("unknown"))

\* The message is a well-formed object whose author can be a dict key.
HashableObject(m) == WellFormedObject(m) /\ AuthorValue(m).t = "str"

\* How many of the messages handed to process_message so far were accepted
\* objects, well-formed objects, and well-formed objects of author k.
NumHashableObjects ==
    Cardinality({ i \in DOMAIN handed : HashableObject(handed[i]) })

NumWellFormedObjects ==
    Cardinality({ i \in DOMAIN handed : WellFormedObject(handed[i]) })

NumObjectsOf(k) ==
    Cardinality({ i \in DOMAIN handed :
                    /\ WellFormedObject(handed[i])
                    /\ AuthorValue(handed[i]) = StrVal(k) })

\* main() is between two cycles: about to poll for the next line.
AtLoopHead == pc = "readline"

\* This step is the call process_message(line) of the main loop.
ProcessStep == pc = "dispatch" /\ strip(line) # <<>> /\ pc' # "dispatch"

Keys == {"Eve", "Bob", "unknown"}

\* ----------------------------------------------------------------- claims

\* C1: in every reachable state, total_messages equals the sum of all values
\* of author_counts.
Thm_C1 == total_messages = SumCounts(author_counts)

\* C1 witness: two keys have been counted and a rejected line has been
\* processed as well.
Wit_C1 ==
    /\ Cardinality(DOMAIN author_counts) = 2
    /\ total_messages = 2
    /\ \E i \in DOMAIN handed : RejectedLine(handed[i])
    /\ AtLoopHead

Claim_C3 ==
    AtLoopHead /\ total_messages >= 1 =>
        /\ Len(message_indices) = NumHashableObjects
        /\ message_indices = [i \in 1..total_messages |-> i]

\* C4: after every accepted record, every key of author_counts has a
\* non-empty history whose last element is 100 * count / total_messages.
Claim_C4 ==
    AtLoopHead /\ total_messages >= 1 =>
        \A k \in DOMAIN author_counts :
            LET h == HistoryOf(percentage_history, k)
            IN  /\ h # <<>>
                /\ h[Len(h)] = Percentage(author_counts[k], total_messages)

\* C5 as stated: after processing complete lines, author_counts[k] is the
\* number of well-formed JSON-object lines whose author (or "unknown") is k
\* and total_messages is the number of well-formed JSON-object lines.
Claim_C5 ==
    (AtLoopHead /\ \A i \in DOMAIN handed : CompleteLine(handed[i])) =>
        /\ total_messages = NumWellFormedObjects
        /\ \A k \in Keys :
              CountOf(author_counts, k) = NumObjectsOf(k)

\* C5 amended: the same, counting only the well-formed JSON-object lines
\* whose author value is hashable (not a JSON array or object).
Thm_C5 ==
    (AtLoopHead /\ \A i \in DOMAIN handed : CompleteLine(handed[i])) =>
        /\ total_messages = NumHashableObjects
        /\ \A k \in Keys :
              CountOf(author_counts, k) = NumObjectsOf(k)
        /\ DOMAIN author_counts \subseteq Keys

\* C5 witness: the lines Eve, Bob, Eve have been processed.
Wit_C5 ==
    /\ AtLoopHead
    /\ handed = << <<"E", Newline>>, <<"B", Newline>>, <<"E", Newline>> >>
    /\ author_counts = [k \in {"Eve", "Bob"} |-> IF k = "Eve" THEN 2 ELSE 1]
    /\ total_messages = 3

\* The four data structures the claims speak about.
aggregate == <<author_counts, total_messages, percentage_history,
               message_indices>>

AggregateOf(a) == <<a.author_counts, a.total_messages, a.percentage_history,
                    a.message_indices>>

ErrorLogged(records) ==
    \E i \in DOMAIN records : records[i].level = "error"

\* The data structures after processing the messages of seq in order,
\* starting from a.
RECURSIVE Replay(_, _)
Replay(a, seq) ==
    IF seq = <<>> THEN a
    ELSE Replay(process_message(a, Head(seq)).agg, Tail(seq))

InitialAgg ==
    [author_counts |-> EmptyDict, author_order |-> <<>>,
     total_messages |-> 0, percentage_history |-> [k \in {} |-> <<>>],
     message_indices |-> <<>>, plotted |-> NoPlot, chart_calls |-> 0]

\* C6: processing a line that is not valid JSON, or valid JSON that is not
\* an object, leaves author_counts, total_messages, percentage_history and
\* message_indices unchanged and logs at error level.
Thm_C6 ==
    [][ProcessStep /\ RejectedLine(line) =>
          /\ UNCHANGED aggregate
          /\ ErrorLogged(logged')]_vars

\* C6 witness: a non-object line has just been rejected, after a malformed
\* line and an accepted record.
Wit_C6 ==
    /\ AtLoopHead
    /\ Len(handed) = 3
    /\ total_messages = 1
    /\ json_loads(handed[3]).type = "list"
    /\ \E i \in 1..2 : json_loads(handed[i]).raised = "JSONDecodeError"
    /\ logged[Len(logged)] = Log("error", "Expected a dictionary")

\* C7: a rejected line never stops the stream: after it the main loop polls
\* again, and the data structures are those obtained by processing only the
\* lines that were not rejected.
Thm_C7 ==
    [][ProcessStep =>
          /\ pc' = "readline"
          /\ aggregate' =
               AggregateOf(Replay(InitialAgg,
                                  SelectSeq(handed', WellFormedObject)))]_vars

\* C7 witness: a well-formed line has been counted after a malformed line
\* and a non-object line were rejected.
Wit_C7 ==
    /\ AtLoopHead
    /\ Len(handed) = 3
    /\ RejectedLine(handed[1]) /\ CompleteLine(handed[1])
    /\ RejectedLine(handed[2]) /\ CompleteLine(handed[2])
    /\ json_loads(handed[1]) # json_loads(handed[2])
    /\ HashableObject(handed[3])
    /\ total_messages = 1

\* The message is a well-formed object without an author field.
NoAuthorField(m) ==
    WellFormedObject(m) /\ "author" \notin DOMAIN json_loads(m).fields

\* C8: an object line without an author field changes the state exactly as
\* a line with author "unknown" would: author_counts["unknown"] and
\* total_messages each increase by 1.
Thm_C8 ==
    [][ProcessStep /\ NoAuthorField(line) =>
          /\ aggregate' =
               AggregateOf(process_message(Agg, <<"K", Newline>>).agg)
          /\ "unknown" \in DOMAIN author_counts'
          /\ author_counts'["unknown"] = CountOf(author_counts, "unknown") + 1
          /\ \A k \in DOMAIN author_counts :
                k # "unknown" => author_counts'[k] = author_counts[k]
          /\ total_messages' = total_messages + 1]_vars

\* C8 witness: two lines without an author field have been processed
\* besides a line of another author.
Wit_C8 ==
    /\ AtLoopHead
    /\ Len(handed) = 3
    /\ NoAuthorField(handed[3])
    /\ \E i \in 1..2 : NoAuthorField(handed[i])
    /\ Cardinality(DOMAIN author_counts) = 2
    /\ author_counts["unknown"] = 2

\* C9: every accepted record is followed, before the next line is polled,
\* by exactly one call of update_chart.
Claim_C9 == AtLoopHead => chart_calls = total_messages

\* C10: a partial line (bytes without a terminating newline) is not handed
\* to process_message and the cursor does not advance past it.
Claim_C10 ==
    /\ \A i \in DOMAIN handed : CompleteLine(handed[i])
    /\ pc = "dispatch" /\ line # <<>> => CompleteLine(line)

\* ------------------------------------------------- claims on the watcher
\* main() has opened the file.
Opened == pc \in {"readline", "dispatch", "finally", "closed"}

\* The position up to which the file has been dispatched: handed to
\* process_message or skipped as blank.  The line just read is not yet.
Dispatched == IF pc = "dispatch" THEN pos - Len(line) ELSE pos

RECURSIVE Flatten(_)
Flatten(seqs) ==
    IF seqs = <<>> THEN <<>> ELSE Head(seqs) \o Flatten(Tail(seqs))

NotWhitespace(c) == c \notin Whitespace

\* C11: lines in the file when the consumer opens it are never processed:
\* the cursor starts at the end of the file, and what has been handed to
\* process_message is, in order, exactly the non-blank text between the
\* size of the file at open and the cursor; the data structures result from
\* those messages alone.
Thm_C11 ==
    Opened =>
        /\ size_at_open <= Dispatched
        /\ SelectSeq(Flatten(handed), NotWhitespace) =
             SelectSeq(SubSeq(file_content, size_at_open + 1, Dispatched),
                       NotWhitespace)
        /\ aggregate = AggregateOf(Replay(InitialAgg, handed))

\* C11 witness: the file held an Eve line at open, a Bob line was appended
\* later and processed; only Bob is counted.
Wit_C11 ==
    /\ AtLoopHead
    /\ file_content = <<"E", Newline, "B", Newline>>
    /\ size_at_open = 2
    /\ pos = 4
    /\ handed = << <<"B", Newline>> >>
    /\ DOMAIN author_counts = {"Bob"}
    /\ total_messages = 1

\* The text s cut into lines: each ends with its newline, except possibly
\* the last.
RECURSIVE Lines(_)
Lines(s) ==
    IF s = <<>> THEN <<>>
    ELSE LET nl == { i \in 1..Len(s) : s[i] = Newline }
             n  == IF nl = {} THEN Len(s)
                   ELSE CHOOSE i \in nl : \A j \in nl : i <= j
         IN  <<SubSeq(s, 1, n)>> \o Lines(SubSeq(s, n + 1, Len(s)))

NonBlank(m) == strip(m) # <<>>

\* The text appended after the open that has been dispatched so far.
DispatchedText == SubSeq(file_content, size_at_open + 1, Dispatched)

\* C12: records are processed in the order they were appended, each at most
\* once, and the data structures depend only on the sequence of lines, not
\* on how appends and polls interleave: as long as only whole lines were
\* read, the messages handed over are exactly the non-blank lines of the
\* dispatched text, in order, and the state is the result of processing them.
Thm_C12 ==
    (Opened /\ \A i \in DOMAIN handed : CompleteLine(handed[i])) =>
        /\ handed = SelectSeq(Lines(DispatchedText), NonBlank)
        /\ aggregate =
             AggregateOf(Replay(InitialAgg,
                                SelectSeq(Lines(DispatchedText), NonBlank)))

\* C12 witness: one record was processed on its own, and two more records
\* were appended together before the next poll.
Wit_C12 ==
    /\ AtLoopHead
    /\ size_at_open = 0
    /\ handed = << <<"E", Newline>> >>
    /\ total_messages = 1
    /\ file_content = <<"E", Newline, "B", Newline, "E", Newline>>
    /\ pos = 2

\* Everything the producer has written so far has been dispatched, and its
\* non-blank text has been handed to process_message.
CaughtUp ==
    /\ Dispatched = Len(file_content)
    /\ SelectSeq(Flatten(handed), NotWhitespace) =
         SelectSeq(DispatchedText, NotWhitespace)

\* C13: without an interrupt, whatever has been appended after the open is
\* eventually dispatched, its non-blank text handed to process_message (the
\* file only grows and the cursor only advances, so the loop catching up
\* again and again means every appended line is reached); when a poll finds
\* nothing the loop sleeps and polls again.
Thm_C13 ==
    /\ Opened ~> CaughtUp
    /\ [][pc = "dispatch" /\ strip(line) = <<>> /\ pc' # pc =>
             pc' = "readline"]_vars

\* C13 witness: a line appended after a blank line has been processed, so
\* the loop has slept and polled again before it; now it sleeps again.
Wit_C13 ==
    /\ AtLoopHead
    /\ size_at_open = 0
    /\ file_content = <<Newline, "E", Newline>>
    /\ handed = << <<"E", Newline>> >>
    /\ pos = 3
    /\ logged = <<Log("debug", "No new messages. Waiting...")>>

\* C14: when the data file does not exist at start, the process exits with
\* a non-zero status without opening the file, entering the loop or changing
\* the data structures.
Thm_C14 ==
    ~data_file_exists =>
        /\ pc \in {"start", "exited"}
        /\ pc = "exited" => exit_code = 1
        /\ exit_code # 0
        /\ pos = 0 /\ line = <<>> /\ handed = <<>>
        /\ Agg = InitialAgg

\* C14 witness: the process has exited with status 1.
Wit_C14 == ~data_file_exists /\ pc = "exited" /\ exit_code = 1

\* C15: an operator interrupt never leaves the data structures partly
\* updated (every key of author_counts has been counted at least once and
\* the counts add up to total_messages), and the process only ends normally
\* through the final display flush.
Claim_C15 ==
    /\ pc \in {"finally", "closed"} =>
          /\ total_messages = SumCounts(author_counts)
          /\ \A k \in DOMAIN author_counts : author_counts[k] >= 1
    /\ exit_code = 0 => pc = "closed"

\* C16: an I/O error raised while reading the open file does not end the
\* stream: once the error has been logged, main() is still in its loop.
Claim_C16 ==
    logged = <<Log("error", "Unexpected error")>> =>
        pc \in {"readline", "dispatch"}

\* ------------------------------------------------ claims on update_chart
\* The record of the latest cycle is fully reflected: message_indices ends
\* with the current total and every key's history ends with its current
\* percentage.
Committed ==
    /\ message_indices # <<>>
    /\ message_indices[Len(message_indices)] = total_messages
    /\ \A k \in DOMAIN author_counts :
          LET h == HistoryOf(percentage_history, k)
          IN  /\ h # <<>>
              /\ h[Len(h)] = Percentage(author_counts[k], total_messages)

FirstSeen(k) ==
    CHOOSE i \in DOMAIN handed :
        /\ AuthorValue(handed[i]).v = k
        /\ \A j \in 1..(i - 1) : AuthorValue(handed[j]).v # k

PlottedSeries == IF plotted.drawn THEN {plotted} ELSE {}

====
